---------------------------- MODULE Spec2Model ----------------------------
(***************************************************************************)
(* Healthcare-facility accreditation pipeline.                             *)
(*                                                                         *)
(*   stage2/scripts/transform_data.py : the Expiry Filter batch job        *)
(*   stage3/scripts/stage3_lambda.py  : the Aggregation-and-Archive Lambda *)
(*                                                                         *)
(* Three specifications share the variables below:                         *)
(*   SpecCheck  : check_if_expiring applied to one valid_until value       *)
(*   Spec       : one run of the Expiry Filter job (__main__ of stage 2)   *)
(*   SpecLambda : invocations of lambda_handler against Athena and S3      *)
(***************************************************************************)
EXTENDS Integers, Sequences, FiniteSets, TLC

VARIABLES
    today,                \* wall-clock date, what datetime.now().date() returns
    chk,                  \* SpecCheck: the call of check_if_expiring under test
    pc,                   \* stage 2: position of __main__
    lines,                \* stage 2: the lines the raw object was written from
    body,                 \* stage 2: content of s3://RAW_BUCKET/RAW_KEY
    facilities,           \* stage 2: `facilities` of __main__
    fi,                   \* stage 2: position of `for facility in facilities`
    ai,                   \* stage 2: position of `for acc in accreditations`
    expiring_facilities,  \* stage 2: references (indices into facilities) appended
    exc,                  \* stage 2: the exception that left __main__, or "none"
    fetch,                \* stage 2: outcome of s3_client.get_object
    write,                \* stage 2: outcome of s3_client.put_object
    transformed,          \* stage 2: content of s3://TRANSFORMED_BUCKET/TRANSFORMED_KEY
    errlog,               \* stage 2: number of logger.error records
    cutoffs,              \* stage 2: the cutoff dates the checks of this pass used
    passStart,            \* stage 2: the date on which the filtering pass began
    ticks,                \* number of midnights passed
    now,                  \* stage 3: the UTC clock, in whole seconds
    lpc,                  \* stage 3: position of each invocation of lambda_handler
    qid,                  \* stage 3: query_execution_id of each invocation
    observed,             \* stage 3: the states get_query_execution returned to wait_for_query
    naps,                 \* stage 3: the calls of time.sleep that returned
    state,                \* stage 3: `state` of wait_for_query and lambda_handler
    dest_key,             \* stage 3: `dest_key` of copy_results_to_final_location
    error,                \* stage 3: the exception that left lambda_handler
    result,               \* stage 3: the value lambda_handler returned
    copies                \* stage 3: the copy_object calls S3 carried out

lambdavars == <<now, lpc, qid, observed, naps, state, dest_key, error, result, copies>>

stage2vars == <<pc, lines, body, facilities, fi, ai, expiring_facilities, exc,
                fetch, write, transformed, errlog, cutoffs, passStart>>

-----------------------------------------------------------------------------
(* Bounds of the model *)

MaxLines == 3       \* lines in the raw object
MaxTicks == 1       \* midnights that pass during one run
MaxClock == 2       \* seconds of UTC time that pass

-----------------------------------------------------------------------------
(* Text: a string is a sequence of one-character strings *)

DigitChars == <<"0", "1", "2", "3", "4", "5", "6", "7", "8", "9">>

IsDigit(c) == \E k \in 1..10 : DigitChars[k] = c

DigitVal(c) == (CHOOSE k \in 1..10 : DigitChars[k] = c) - 1

AllDigits(s) == \A k \in 1..Len(s) : IsDigit(s[k])

RECURSIVE int(_)
\* int(s) for a string of decimal digits
int(s) == IF s = <<>> THEN 0
          ELSE 10 * int(SubSeq(s, 1, Len(s) - 1)) + DigitVal(s[Len(s)])

Pad2(n) == <<DigitChars[((n \div 10) % 10) + 1], DigitChars[(n % 10) + 1]>>

Pad4(n) == Pad2(n \div 100) \o Pad2(n % 100)

\* date.isoformat(): YYYY-MM-DD
isoformat(d) == Pad4(d.year) \o <<"-">> \o Pad2(d.month) \o <<"-">> \o Pad2(d.day)

-----------------------------------------------------------------------------
(* Calendar arithmetic of datetime and dateutil.relativedelta *)

IsLeap(y) == (y % 4 = 0 /\ y % 100 # 0) \/ y % 400 = 0

DaysInMonth(y, m) ==
    IF m = 2 THEN (IF IsLeap(y) THEN 29 ELSE 28)
    ELSE IF m \in {4, 6, 9, 11} THEN 30 ELSE 31

Date(y, m, d) == [year |-> y, month |-> m, day |-> d]

\* date.__le__: dates order as (year, month, day)
DateLE(a, b) ==
    \/ a.year < b.year
    \/ a.year = b.year /\ a.month < b.month
    \/ a.year = b.year /\ a.month = b.month /\ a.day <= b.day

\* date + relativedelta(months=n): the month moves, the day is clipped to the
\* length of the target month
relativedelta_months(d, n) ==
    LET m0 == d.month + n
        y  == IF m0 > 12 THEN d.year + 1 ELSE d.year
        m  == IF m0 > 12 THEN m0 - 12 ELSE m0
        dd == IF d.day > DaysInMonth(y, m) THEN DaysInMonth(y, m) ELSE d.day
    IN  Date(y, m, dd)

\* the date after d (the clock passing midnight)
NextDay(d) ==
    IF d.day < DaysInMonth(d.year, d.month) THEN Date(d.year, d.month, d.day + 1)
    ELSE IF d.month < 12 THEN Date(d.year, d.month + 1, 1)
    ELSE Date(d.year + 1, 1, 1)

-----------------------------------------------------------------------------
(* datetime.fromisoformat and check_if_expiring *)

NoDate == Date(0, 0, 0)

Raised(kind) == [ok |-> FALSE, exc |-> kind, value |-> NoDate]

Returned(d) == [ok |-> TRUE, exc |-> "none", value |-> d]

\* the time part after the separator: HH, HH:MM or HH:MM:SS
ValidTimePart(t) ==
    /\ Len(t) \in {2, 5, 8}
    /\ \A k \in 1..Len(t) : IF k \in {3, 6} THEN t[k] = ":" ELSE IsDigit(t[k])
    /\ int(SubSeq(t, 1, 2)) <= 23
    /\ Len(t) >= 5 => int(SubSeq(t, 4, 5)) <= 59
    /\ Len(t) >= 8 => int(SubSeq(t, 7, 8)) <= 59

\* datetime.fromisoformat(v).date(): TypeError for a value that is no string,
\* ValueError for a string that is no ISO date or names no calendar day
fromisoformat_date(v) ==
    IF v.type # "str" THEN Raised("TypeError")
    ELSE LET s == v.chars IN
      IF Len(s) < 10 THEN Raised("ValueError")
      ELSE IF ~ ( /\ AllDigits(SubSeq(s, 1, 4)) /\ s[5] = "-"
                  /\ AllDigits(SubSeq(s, 6, 7)) /\ s[8] = "-"
                  /\ AllDigits(SubSeq(s, 9, 10)) )
           THEN Raised("ValueError")
      ELSE LET y == int(SubSeq(s, 1, 4))
               m == int(SubSeq(s, 6, 7))
               d == int(SubSeq(s, 9, 10))
           IN IF Len(s) > 10 /\ ~ ValidTimePart(SubSeq(s, 12, Len(s)))
                 THEN Raised("ValueError")
              ELSE IF y < 1 \/ m < 1 \/ m > 12 THEN Raised("ValueError")
              ELSE IF d < 1 \/ d > DaysInMonth(y, m) THEN Raised("ValueError")
              ELSE Returned(Date(y, m, d))

HorizonMonths == 6

\* datetime.now().date() + relativedelta(months=6), on the day the clock reads
Cutoff(day) == relativedelta_months(day, HorizonMonths)

\* check_if_expiring with < for <=
check_if_expiring_strict(valid_until, day) ==
    LET p == fromisoformat_date(valid_until) IN
    IF p.ok
      THEN [result |-> DateLE(p.value, Cutoff(day)) /\ p.value # Cutoff(day),
            raised |-> "none", logged |-> 0, horizon |-> {Cutoff(day)}]
      ELSE [result |-> FALSE, raised |-> "none", logged |-> 1, horizon |-> {}]

\* what `except Exception` catches
ExceptionSubclasses == {"TypeError", "ValueError", "AttributeError"}

\* check_if_expiring(valid_until) called on the day `day`:
\* result is the value returned, raised the exception that leaves the call,
\* logged the number of logger.error records, horizon the cutoff date the call
\* computed (none when fromisoformat raised before the right operand was
\* evaluated)
check_if_expiring(valid_until, day) ==
    LET p == fromisoformat_date(valid_until) IN
    IF p.ok
      THEN [result |-> DateLE(p.value, Cutoff(day)), raised |-> "none", logged |-> 0,
            horizon |-> {Cutoff(day)}]
    ELSE IF p.exc \in ExceptionSubclasses
      THEN [result |-> FALSE, raised |-> "none", logged |-> 1, horizon |-> {}]
      ELSE [result |-> FALSE, raised |-> p.exc, logged |-> 0, horizon |-> {}]

-----------------------------------------------------------------------------
(* JSON values as json.loads returns them *)

Str(chars) == [type |-> "str", chars |-> chars]

None == [type |-> "null", chars |-> <<>>]

Absent == [type |-> "absent", chars |-> <<>>]

\* an entry of an accreditations list: a mapping, or a number
Acc(valid_until) == [type |-> "dict", valid_until |-> valid_until]

NumberEntry == [type |-> "int", valid_until |-> Absent]

\* the value under "accreditations"
List(items) == [type |-> "list", items |-> items]

NullList == [type |-> "null", items |-> <<>>]

NoKey == [type |-> "absent", items |-> <<>>]

Facility(name, accs) == [type |-> "dict", facility_name |-> name, accreditations |-> accs]

Number == [type |-> "int", facility_name |-> "", accreditations |-> NoKey]

\* The texts of the raw feed, one token each
TextA == "{\"facility_name\":\"A\",\"accreditations\":[{\"valid_until\":\"2024-01-01\"}]}"
TextB == "{\"facility_name\":\"B\",\"accreditations\":[{\"accreditation_body\":\"X\"},{\"valid_until\":\"2024-02-02\"}]}"
TextC == "{\"facility_name\":\"C\"}"
TextE == "{\"facility_name\":\"E\",\"accreditations\":[{\"valid_until\":\"2023-06-30\"},{\"valid_until\":\"2023-07-01\"}]}"
TextU == "{\"facility_name\":\"U\",\"accreditations\":null}"
TextV == "{\"facility_name\":\"V\",\"accreditations\":[7]}"
TextN == "7"
TextJunk == "{\"facility_name\":"

JsonTexts == {TextA, TextB, TextC, TextE, TextU, TextV, TextN}

\* json.loads on one of the texts above
Decode(text) ==
    CASE text = TextA -> Facility("A", List(<<Acc(Str(isoformat(Date(2024, 1, 1))))>>))
      [] text = TextB -> Facility("B", List(<<Acc(Absent),
                                              Acc(Str(isoformat(Date(2024, 2, 2))))>>))
      [] text = TextC -> Facility("C", NoKey)
      [] text = TextE -> Facility("E", List(<<Acc(Str(isoformat(Date(2023, 6, 30)))),
                                              Acc(Str(isoformat(Date(2023, 7, 1))))>>))
      [] text = TextU -> Facility("U", NullList)
      [] text = TextV -> Facility("V", List(<<NumberEntry>>))
      [] text = TextN -> Number

\* json.loads(line) for a stripped, non-empty line: a line that is exactly one
\* JSON text decodes; anything else (a truncated text, two texts) is a
\* JSONDecodeError
json_loads(line) ==
    IF Len(line) = 1 /\ line[1] \in JsonTexts
      THEN [ok |-> TRUE, exc |-> "none", value |-> Decode(line[1])]
      ELSE [ok |-> FALSE, exc |-> "JSONDecodeError", value |-> Number]

-----------------------------------------------------------------------------
(* str.strip, str.splitlines, parse_json_lines *)

NL == "\n"

IsSpace(c) == c \in {" ", NL}

RECURSIVE lstrip(_)
lstrip(s) == IF s # <<>> /\ IsSpace(Head(s)) THEN lstrip(Tail(s)) ELSE s

RECURSIVE rstrip(_)
rstrip(s) == IF s # <<>> /\ IsSpace(s[Len(s)])
               THEN rstrip(SubSeq(s, 1, Len(s) - 1)) ELSE s

strip(s) == rstrip(lstrip(s))

RECURSIVE splitlines(_)
\* the lines of s without their line breaks; no empty last line after a final
\* line break
splitlines(s) ==
    IF s = <<>> THEN <<>>
    ELSE IF \E k \in 1..Len(s) : s[k] = NL
      THEN LET k == CHOOSE j \in 1..Len(s) :
                        s[j] = NL /\ \A h \in 1..(j - 1) : s[h] # NL
           IN <<SubSeq(s, 1, k - 1)>> \o splitlines(SubSeq(s, k + 1, Len(s)))
      ELSE <<s>>

RECURSIVE parse_lines(_)
\* the loop of parse_json_lines over the remaining lines
parse_lines(ls) ==
    IF ls = <<>> THEN <<>>
    ELSE LET line == strip(Head(ls)) IN
      IF line = <<>> THEN parse_lines(Tail(ls))
      ELSE LET r == json_loads(line) IN
        IF r.ok THEN <<r.value>> \o parse_lines(Tail(ls))
        ELSE parse_lines(Tail(ls))

RECURSIVE parse_lines_abort(_)
\* the loop with `break` for `continue` in the except clause
parse_lines_abort(ls) ==
    IF ls = <<>> THEN <<>>
    ELSE LET line == strip(Head(ls)) IN
      IF line = <<>> THEN parse_lines_abort(Tail(ls))
      ELSE LET r == json_loads(line) IN
        IF r.ok THEN <<r.value>> \o parse_lines_abort(Tail(ls))
        ELSE <<>>

parse_json_lines_abort(b) == parse_lines_abort(splitlines(b))

parse_json_lines(b) == parse_lines(splitlines(b))

-----------------------------------------------------------------------------
(* The Aggregation-and-Archive job: stage3_lambda.py *)

\* the invocations of lambda_handler that may run, one after the other or at
\* the same time
Invs == {"inv1", "inv2"}

max_tries == 20

QueryStates == {"RUNNING", "SUCCEEDED", "FAILED", "CANCELLED"}

\* line 56
Terminal == {"SUCCEEDED", "FAILED", "CANCELLED"}

FINAL_RESULTS_BUCKET == "healthcare-facility"

FINAL_RESULTS_PREFIX == "transformed/"

\* datetime.utcnow() when the clock reads `sec`
UtcReadings(sec) == { [sec |-> sec, usec |-> u] : u \in {0, 500000} }

\* strftime("%Y%m%dT%H%M%SZ"): the reading to the second, the microseconds dropped
strftime(t) == t.sec

\* line 80
DestKey(t) == [prefix |-> FINAL_RESULTS_PREFIX, stem |-> "state_counts_",
               stamp |-> strftime(t), ext |-> ".csv"]

NoKey3 == [prefix |-> "", stem |-> "", stamp |-> 0, ext |-> ""]

\* line 93
S3Path(key) == [bucket |-> FINAL_RESULTS_BUCKET, key |-> key]

NoError == [kind |-> "none", state |-> "none"]

NoResult == [statusCode |-> 0, result_path |-> S3Path(NoKey3)]

LambdaInit ==
    /\ now = 0
    /\ lpc = [i \in Invs |-> "idle"]
    /\ qid = [i \in Invs |-> "none"]
    /\ observed = [i \in Invs |-> <<>>]
    /\ naps = [i \in Invs |-> 0]
    /\ state = [i \in Invs |-> "none"]
    /\ dest_key = [i \in Invs |-> NoKey3]
    /\ error = [i \in Invs |-> NoError]
    /\ result = [i \in Invs |-> NoResult]
    /\ copies = {}

\* an exception leaves lambda_handler
Raise(i, kind, st) ==
    /\ lpc' = [lpc EXCEPT ![i] = "raised"]
    /\ error' = [error EXCEPT ![i] = [kind |-> kind, state |-> st]]

\* lines 103-105: the event arrives and start_athena_query submits the query;
\* Athena hands out a handle of its own for each submission, or rejects it
invoke(i) ==
    /\ lpc[i] = "idle"
    /\ \/ /\ qid' = [qid EXCEPT ![i] = <<"query", i>>]
          /\ lpc' = [lpc EXCEPT ![i] = "poll"]
          /\ UNCHANGED error
       \/ /\ Raise(i, "ClientError", "none")
          /\ UNCHANGED qid
    /\ UNCHANGED <<now, observed, naps, state, dest_key, result, copies>>
    /\ UNCHANGED <<today, chk, stage2vars, ticks>>

\* the fetch with CANCELLED missing from the terminal states of line 56
poll_cancelled_not_terminal(i) ==
    /\ lpc[i] = "poll"
    /\ \/ \E s \in QueryStates :
            /\ observed' = [observed EXCEPT ![i] = Append(@, s)]
            /\ state' = [state EXCEPT ![i] = s]
            /\ lpc' = [lpc EXCEPT ![i] =
                         IF s \in {"SUCCEEDED", "FAILED"} THEN "decide" ELSE "sleep"]
            /\ UNCHANGED error
       \/ /\ Raise(i, "ClientError", "none")
          /\ UNCHANGED <<observed, state>>
    /\ UNCHANGED <<now, qid, naps, dest_key, result, copies>>
    /\ UNCHANGED <<today, chk, stage2vars, ticks>>

\* wait_for_query, lines 52-57: one fetch of the query state; a terminal state
\* is returned to lambda_handler at once
poll(i) ==
    /\ lpc[i] = "poll"
    /\ \/ \E s \in QueryStates :
            /\ observed' = [observed EXCEPT ![i] = Append(@, s)]
            /\ state' = [state EXCEPT ![i] = s]
            /\ lpc' = [lpc EXCEPT ![i] = IF s \in Terminal THEN "decide" ELSE "sleep"]
            /\ UNCHANGED error
       \/ /\ Raise(i, "ClientError", "none")
          /\ UNCHANGED <<observed, state>>
    /\ UNCHANGED <<now, qid, naps, dest_key, result, copies>>
    /\ UNCHANGED <<today, chk, stage2vars, ticks>>

\* the loop running one attempt too many
nap_one_more(i) ==
    /\ lpc[i] = "sleep"
    /\ naps' = [naps EXCEPT ![i] = @ + 1]
    /\ IF naps[i] + 1 <= max_tries
         THEN /\ lpc' = [lpc EXCEPT ![i] = "poll"]
              /\ UNCHANGED error
         ELSE Raise(i, "TimeoutError", "none")
    /\ UNCHANGED <<now, qid, observed, state, dest_key, result, copies>>
    /\ UNCHANGED <<today, chk, stage2vars, ticks>>

\* wait_for_query, lines 59, 51 and 61: time.sleep returns and the loop goes to
\* its next attempt, or ends in TimeoutError when range(max_tries) is used up.
\* The clock (Second) runs on its own while an invocation sleeps; how long the
\* sleep lasted is left open, which admits every run in which it lasted `delay`
\* seconds or more
nap(i) ==
    /\ lpc[i] = "sleep"
    /\ naps' = [naps EXCEPT ![i] = @ + 1]
    /\ IF naps[i] + 1 < max_tries
         THEN /\ lpc' = [lpc EXCEPT ![i] = "poll"]
              /\ UNCHANGED error
         ELSE Raise(i, "TimeoutError", "none")
    /\ UNCHANGED <<now, qid, observed, state, dest_key, result, copies>>
    /\ UNCHANGED <<today, chk, stage2vars, ticks>>

\* line 108 testing for FAILED alone
decide_failed_only(i) ==
    /\ lpc[i] = "decide"
    /\ IF state[i] = "FAILED"
         THEN Raise(i, "RuntimeError", state[i])
         ELSE /\ lpc' = [lpc EXCEPT ![i] = "archive"]
              /\ UNCHANGED error
    /\ UNCHANGED <<now, qid, observed, naps, state, dest_key, result, copies>>
    /\ UNCHANGED <<today, chk, stage2vars, ticks>>

\* lambda_handler, lines 108-110: any state but SUCCEEDED is a RuntimeError
\* whose message names the state
decide(i) ==
    /\ lpc[i] = "decide"
    /\ IF state[i] # "SUCCEEDED"
         THEN Raise(i, "RuntimeError", state[i])
         ELSE /\ lpc' = [lpc EXCEPT ![i] = "archive"]
              /\ UNCHANGED error
    /\ UNCHANGED <<now, qid, observed, naps, state, dest_key, result, copies>>
    /\ UNCHANGED <<today, chk, stage2vars, ticks>>

\* copy_results_to_final_location, lines 71-88: the output location is looked
\* up and the destination key stamped with the UTC time
copy_prepare(i) ==
    /\ lpc[i] = "archive"
    /\ \/ \E t \in UtcReadings(now) :
            /\ dest_key' = [dest_key EXCEPT ![i] = DestKey(t)]
            /\ lpc' = [lpc EXCEPT ![i] = "copy"]
            /\ UNCHANGED error
       \/ /\ Raise(i, "ClientError", "none")
          /\ UNCHANGED dest_key
    /\ UNCHANGED <<now, qid, observed, naps, state, result, copies>>
    /\ UNCHANGED <<today, chk, stage2vars, ticks>>

\* lines 90-93 and 113-123: S3 copies the query output to the destination key
\* and lambda_handler returns the payload, or S3 rejects the copy
copy_object(i) ==
    /\ lpc[i] = "copy"
    /\ \/ /\ copies' = copies \cup {[key |-> dest_key[i], by |-> i, source |-> qid[i]]}
          /\ result' = [result EXCEPT ![i] =
                           [statusCode |-> 200, result_path |-> S3Path(dest_key[i])]]
          /\ lpc' = [lpc EXCEPT ![i] = "returned"]
          /\ UNCHANGED error
       \/ /\ Raise(i, "ClientError", "none")
          /\ UNCHANGED <<copies, result>>
    /\ UNCHANGED <<now, qid, observed, naps, state, dest_key>>
    /\ UNCHANGED <<today, chk, stage2vars, ticks>>

\* a second of UTC time passes
Second ==
    /\ now < MaxClock
    /\ now' = now + 1
    /\ UNCHANGED <<lpc, qid, observed, naps, state, dest_key, error, result, copies>>
    /\ UNCHANGED <<today, chk, stage2vars, ticks>>

-----------------------------------------------------------------------------
(* The Expiry Filter job: __main__ of transform_data.py *)

\* The lines a raw object is written from
LineTexts == { <<" ">>, <<" ", TextA, " ">>, <<TextB>>, <<TextC>>, <<TextE>>,
               <<TextU>>, <<TextV>>, <<TextN>>, <<TextJunk>> }

RECURSIVE Join(_)
\* the lines joined by line breaks
Join(ls) == IF ls = <<>> THEN <<>>
            ELSE IF Len(ls) = 1 THEN ls[1]
            ELSE ls[1] \o <<NL>> \o Join(Tail(ls))

Bodies == UNION { [1..n -> LineTexts] : n \in 0..MaxLines }

JobTodays == { Date(2023, 8, 1) }

NoCheck == [phase |-> "none", arg |-> None, result |-> FALSE, raised |-> "none",
            logged |-> 0]

NotWritten == [written |-> FALSE, data |-> <<>>]

Init ==
    /\ today \in JobTodays
    /\ lines \in Bodies
    /\ body = Join(lines)
    /\ pc = "start"
    /\ facilities = <<>>
    /\ fi = 0
    /\ ai = 0
    /\ expiring_facilities = <<>>
    /\ exc = "none"
    /\ fetch = "pending"
    /\ write = "pending"
    /\ transformed = NotWritten
    /\ errlog = 0
    /\ cutoffs = {}
    /\ passStart = NoDate
    /\ ticks = 0
    /\ chk = NoCheck
    /\ LambdaInit

\* what a call of the storage service may do
StorageOutcomes == {"ok", "ClientError", "Exception"}

\* get_all_facilities without its except clauses
get_all_facilities_propagating ==
    /\ pc = "start"
    /\ \E outcome \in StorageOutcomes :
         /\ fetch' = outcome
         /\ facilities' = IF outcome = "ok" THEN parse_json_lines(strip(body)) ELSE <<>>
         /\ pc' = IF outcome = "ok" THEN "filter" ELSE "raised"
         /\ exc' = IF outcome = "ok" THEN "none" ELSE outcome
    /\ UNCHANGED <<lambdavars, today, chk, lines, body, fi, ai, expiring_facilities, write,
                   transformed, errlog, cutoffs, passStart, ticks>>

\* get_all_facilities: the object is read and parsed, or the failure is logged
\* and the empty list returned
get_all_facilities ==
    /\ pc = "start"
    /\ \E outcome \in StorageOutcomes :
         /\ fetch' = outcome
         /\ facilities' = IF outcome = "ok" THEN parse_json_lines(strip(body)) ELSE <<>>
         /\ errlog' = IF outcome = "ok" THEN errlog ELSE errlog + 1
    /\ pc' = "filter"
    /\ UNCHANGED <<lambdavars, today, chk, lines, body, fi, ai, expiring_facilities, exc, write,
                   transformed, cutoffs, passStart, ticks>>

\* filter_expiring_facilities, lines 111-112: the pass begins
filter_begin ==
    /\ pc = "filter"
    /\ expiring_facilities' = <<>>
    /\ fi' = 1
    /\ passStart' = today
    /\ cutoffs' = {}
    /\ pc' = "next_facility"
    /\ UNCHANGED <<lambdavars, today, chk, lines, body, facilities, ai, exc, fetch, write,
                   transformed, errlog, ticks>>

\* facility.get("accreditations", [])
accreditations_of(facility) ==
    IF facility.accreditations.type = "absent" THEN List(<<>>)
    ELSE facility.accreditations

\* lines 113-115: the next facility is taken and its accreditations fetched;
\* .get on a value that is no mapping raises AttributeError, iterating a value
\* that is no list raises TypeError
next_facility ==
    /\ pc = "next_facility"
    /\ IF fi > Len(facilities)
         THEN /\ pc' = "filter_end"
              /\ UNCHANGED <<ai, exc>>
         ELSE IF facilities[fi].type # "dict"
           THEN /\ pc' = "raised"
                /\ exc' = "AttributeError"
                /\ UNCHANGED ai
         ELSE IF accreditations_of(facilities[fi]).type # "list"
           THEN /\ pc' = "raised"
                /\ exc' = "TypeError"
                /\ UNCHANGED ai
         ELSE /\ pc' = "scan"
              /\ ai' = 1
              /\ UNCHANGED exc
    /\ UNCHANGED <<lambdavars, today, chk, lines, body, facilities, fi, expiring_facilities,
                   fetch, write, transformed, errlog, cutoffs, passStart, ticks>>

\* acc.get("valid_until")
valid_until_of(acc) == IF acc.valid_until.type = "absent" THEN None ELSE acc.valid_until

\* the scan without `break`: a match appends and the inner loop goes on
scan_accreditation_no_break ==
    /\ pc = "scan"
    /\ LET items == accreditations_of(facilities[fi]).items IN
       IF ai > Len(items)
         THEN /\ fi' = fi + 1
              /\ pc' = "next_facility"
              /\ UNCHANGED <<ai, exc, expiring_facilities, errlog, cutoffs>>
       ELSE IF items[ai].type # "dict"
         THEN /\ pc' = "raised"
              /\ exc' = "AttributeError"
              /\ UNCHANGED <<fi, ai, expiring_facilities, errlog, cutoffs>>
       ELSE LET r == check_if_expiring(valid_until_of(items[ai]), today) IN
              /\ errlog' = errlog + r.logged
              /\ cutoffs' = cutoffs \cup r.horizon
              /\ expiring_facilities' = IF r.result THEN Append(expiring_facilities, fi)
                                        ELSE expiring_facilities
              /\ ai' = ai + 1
              /\ UNCHANGED <<fi, pc, exc>>
    /\ UNCHANGED <<lambdavars, today, chk, lines, body, facilities, fetch, write, transformed,
                   passStart, ticks>>

\* lines 115-119: one accreditation of the current facility is checked; a match
\* appends the facility and breaks out of the inner loop
scan_accreditation ==
    /\ pc = "scan"
    /\ LET items == accreditations_of(facilities[fi]).items IN
       IF ai > Len(items)
         THEN /\ fi' = fi + 1
              /\ pc' = "next_facility"
              /\ UNCHANGED <<ai, exc, expiring_facilities, errlog, cutoffs>>
       ELSE IF items[ai].type # "dict"
         THEN /\ pc' = "raised"
              /\ exc' = "AttributeError"
              /\ UNCHANGED <<fi, ai, expiring_facilities, errlog, cutoffs>>
       ELSE LET r == check_if_expiring(valid_until_of(items[ai]), today) IN
              /\ errlog' = errlog + r.logged
              /\ cutoffs' = cutoffs \cup r.horizon
              /\ IF r.raised # "none"
                   THEN /\ pc' = "raised"
                        /\ exc' = r.raised
                        /\ UNCHANGED <<fi, ai, expiring_facilities>>
                 ELSE IF r.result
                   THEN /\ expiring_facilities' = Append(expiring_facilities, fi)
                        /\ fi' = fi + 1
                        /\ pc' = "next_facility"
                        /\ UNCHANGED <<ai, exc>>
                 ELSE /\ ai' = ai + 1
                      /\ UNCHANGED <<fi, pc, exc, expiring_facilities>>
    /\ UNCHANGED <<lambdavars, today, chk, lines, body, facilities, fetch, write, transformed,
                   passStart, ticks>>

\* lines 120-121: the pass ends and the list is returned to __main__
filter_end ==
    /\ pc = "filter_end"
    /\ pc' = "write"
    /\ UNCHANGED <<lambdavars, today, chk, lines, body, facilities, fi, ai, expiring_facilities,
                   exc, fetch, write, transformed, errlog, cutoffs, passStart, ticks>>

\* the list filter_expiring_facilities returns: the facilities referred to
Expiring == [k \in 1..Len(expiring_facilities) |-> facilities[expiring_facilities[k]]]

\* write_to_s3, then the last line of __main__: the object is overwritten with
\* the list, or the failure is logged
write_to_s3 ==
    /\ pc = "write"
    /\ \E outcome \in StorageOutcomes :
         /\ write' = outcome
         /\ transformed' = IF outcome = "ok" THEN [written |-> TRUE, data |-> Expiring]
                            ELSE transformed
         /\ errlog' = IF outcome = "ok" THEN errlog ELSE errlog + 1
    /\ pc' = "done"
    /\ UNCHANGED <<lambdavars, today, chk, lines, body, facilities, fi, ai, expiring_facilities,
                   exc, fetch, cutoffs, passStart, ticks>>

\* midnight passes while the job runs
Midnight ==
    /\ pc \notin {"done", "raised"}
    /\ ticks < MaxTicks
    /\ today' = NextDay(today)
    /\ ticks' = ticks + 1
    /\ UNCHANGED <<chk, stage2vars, lambdavars>>

vars == <<today, chk, stage2vars, ticks, lambdavars>>

Next ==
    \/ get_all_facilities
    \/ filter_begin
    \/ next_facility
    \/ scan_accreditation
    \/ filter_end
    \/ write_to_s3
    \/ Midnight

Spec == Init /\ [][Next]_vars

-----------------------------------------------------------------------------
(* check_if_expiring on its own *)

CheckTodays == { Date(2023, 8, 1), Date(2023, 1, 1), Date(2023, 8, 31),
                 Date(2022, 8, 31), Date(2023, 12, 31), Date(2023, 7, 15) }

\* the valid_until values tried: dates around each cutoff, a leap day, days and
\* months no calendar has, texts that are no ISO date, date-times, None, a number
ValidUntilInputs ==
    { Str(isoformat(d)) : d \in { Date(2024, 1, 1), Date(2024, 2, 1), Date(2024, 2, 2),
                                  Date(2024, 2, 29), Date(2024, 3, 1), Date(2023, 2, 28),
                                  Date(2023, 3, 1), Date(2023, 7, 1), Date(2023, 7, 2),
                                  Date(2024, 6, 30), Date(2024, 7, 1), Date(2024, 1, 15),
                                  Date(2024, 1, 16), Date(2023, 2, 29), Date(2024, 13, 1),
                                  Date(2024, 0, 10), Date(2024, 4, 31) } }
    \cup { Str(isoformat(Date(2024, 2, 1)) \o <<"T", "2", "3", ":", "5", "9">>),
           Str(isoformat(Date(2024, 2, 2)) \o <<" ", "0", "0", ":", "0", "0">>),
           Str(isoformat(Date(2024, 2, 1)) \o <<"T", "2", "5", ":", "0", "0">>),
           Str(<<"s", "o", "o", "n">>),
           Str(<<"2", "0", "2", "4", "/", "0", "1", "/", "0", "1">>),
           Str(<<"2", "0", "2", "4", "-", "1", "-", "1">>),
           Str(<<>>),
           None,
           [type |-> "int", chars |-> <<>>] }

InitCheck ==
    /\ today \in CheckTodays
    /\ \E v \in ValidUntilInputs :
         chk = [phase |-> "call", arg |-> v, result |-> FALSE, raised |-> "none",
                logged |-> 0]
    /\ lines = <<>>
    /\ body = <<>>
    /\ pc = "idle"
    /\ facilities = <<>>
    /\ fi = 0
    /\ ai = 0
    /\ expiring_facilities = <<>>
    /\ exc = "none"
    /\ fetch = "pending"
    /\ write = "pending"
    /\ transformed = NotWritten
    /\ errlog = 0
    /\ cutoffs = {}
    /\ passStart = NoDate
    /\ ticks = 0
    /\ LambdaInit

\* the call of check_if_expiring returns (or an exception leaves it)
check_call ==
    /\ chk.phase = "call"
    /\ LET r == check_if_expiring(chk.arg, today) IN
         chk' = [phase |-> IF r.raised = "none" THEN "returned" ELSE "raised",
                 arg |-> chk.arg, result |-> r.result, raised |-> r.raised,
                 logged |-> r.logged]
    /\ UNCHANGED <<today, stage2vars, ticks, lambdavars>>

NextCheck == check_call

SpecCheck == InitCheck /\ [][NextCheck]_vars

-----------------------------------------------------------------------------
(* lambda_handler on its own *)

InitLambda ==
    /\ LambdaInit
    /\ today = Date(2023, 8, 1)
    /\ chk = NoCheck
    /\ lines = <<>>
    /\ body = <<>>
    /\ pc = "idle"
    /\ facilities = <<>>
    /\ fi = 0
    /\ ai = 0
    /\ expiring_facilities = <<>>
    /\ exc = "none"
    /\ fetch = "pending"
    /\ write = "pending"
    /\ transformed = NotWritten
    /\ errlog = 0
    /\ cutoffs = {}
    /\ passStart = NoDate
    /\ ticks = 0

NextLambda ==
    \/ \E i \in Invs : invoke(i)
    \/ \E i \in Invs : poll(i)
    \/ \E i \in Invs : nap(i)
    \/ \E i \in Invs : decide(i)
    \/ \E i \in Invs : copy_prepare(i)
    \/ \E i \in Invs : copy_object(i)
    \/ Second

SpecLambda == InitLambda /\ [][NextLambda]_vars

-----------------------------------------------------------------------------
(* What the claims speak of, stated without the code's own parsing *)

\* the proleptic Gregorian calendar by table
MonthLengths == <<31, 28, 31, 30, 31, 30, 31, 31, 30, 31, 30, 31>>

LeapYear(y) == y % 4 = 0 /\ (y % 100 # 0 \/ y % 400 = 0)

InCalendar(d) ==
    /\ d.year \in 1..9999
    /\ d.month \in 1..12
    /\ d.day >= 1
    /\ d.day <= MonthLengths[d.month] + (IF d.month = 2 /\ LeapYear(d.year) THEN 1 ELSE 0)

RECURSIVE DaysBeforeMonth(_, _)
DaysBeforeMonth(y, m) ==
    IF m = 1 THEN 0
    ELSE DaysBeforeMonth(y, m - 1) + MonthLengths[m - 1]
         + (IF m - 1 = 2 /\ LeapYear(y) THEN 1 ELSE 0)

\* the day number of a calendar date (date.toordinal)
Ordinal(d) ==
    365 * (d.year - 1) + ((d.year - 1) \div 4) - ((d.year - 1) \div 100)
      + ((d.year - 1) \div 400) + DaysBeforeMonth(d.year, d.month) + d.day

RECURSIVE Num(_)
\* the number a text of digits writes; any other character counts as 0
Num(s) == IF s = <<>> THEN 0
          ELSE 10 * Num(SubSeq(s, 1, Len(s) - 1))
               + (IF IsDigit(s[Len(s)]) THEN DigitVal(s[Len(s)]) ELSE 0)

TextDate(t) == Date(Num(SubSeq(t, 1, 4)), Num(SubSeq(t, 6, 7)), Num(SubSeq(t, 9, 10)))

\* a separator and a time of day HH:MM
IsClockSuffix(t) ==
    \E h \in 0..23, m \in 0..59 : SubSeq(t, 2, Len(t)) = Pad2(h) \o <<":">> \o Pad2(m)

\* v is a text that writes a calendar date in ISO form (alone, or followed by a
\* time of day)
IsIsoDate(v) ==
    /\ v.type = "str"
    /\ Len(v.chars) >= 10
    /\ InCalendar(TextDate(v.chars))
    /\ isoformat(TextDate(v.chars)) = SubSeq(v.chars, 1, 10)
    /\ Len(v.chars) > 10 => IsClockSuffix(SubSeq(v.chars, 11, Len(v.chars)))

\* v is a valid ISO date on or before the date limit
ExpiresBy(v, limit) == IsIsoDate(v) /\ Ordinal(TextDate(v.chars)) <= Ordinal(limit)

\* a line of the feed that is one JSON text, surrounded by blanks at most
IsStructured(l) ==
    /\ Cardinality({k \in 1..Len(l) : l[k] \in JsonTexts}) = 1
    /\ \A k \in 1..Len(l) : l[k] \in JsonTexts \/ l[k] = " "

IsBlank(l) == \A k \in 1..Len(l) : l[k] = " "

IsMalformed(l) == ~ IsStructured(l) /\ ~ IsBlank(l)

StructuredValue(l) == Decode(l[CHOOSE k \in 1..Len(l) : l[k] \in JsonTexts])

RECURSIVE ValidRecords(_)
\* the values of the structured lines among ls, in the order of the lines
ValidRecords(ls) ==
    IF ls = <<>> THEN <<>>
    ELSE IF IsStructured(Head(ls)) THEN <<StructuredValue(Head(ls))>> \o ValidRecords(Tail(ls))
    ELSE ValidRecords(Tail(ls))

\* the accreditation entries of a facility record
Entries(f) == IF f.type = "dict" /\ f.accreditations.type = "list"
                THEN f.accreditations.items ELSE <<>>

Range(seq) == {seq[k] : k \in 1..Len(seq)}

FilterReturned == pc \in {"write", "done"}

FetchFailed == fetch \in {"ClientError", "Exception"}

WriteFailed == write \in {"ClientError", "Exception"}

\* a step of the job itself (not of the clock)
JobStep ==
    \/ get_all_facilities
    \/ filter_begin
    \/ next_facility
    \/ scan_accreditation
    \/ filter_end
    \/ write_to_s3

-----------------------------------------------------------------------------
(* Claims about the Expiry Filter *)

\* C1, the list returned: the list filter_expiring_facilities returns is a subsequence of its input
\* in the input's order (the references appended are strictly increasing
\* positions, so no facility appears twice), and it holds exactly the facilities
\* with a qualifying accreditation: a facility in it has an accreditation whose
\* valid_until is a valid date on or before a cutoff of the pass, and every
\* valid date of a facility left out lies after a cutoff of the pass.  When the
\* pass used one cutoff, that is: in the list iff some valid_until <= cutoff.
FilterSubsequenceExact ==
    FilterReturned =>
      /\ \A k \in 1..Len(expiring_facilities) :
            expiring_facilities[k] \in 1..Len(facilities)
      /\ \A k \in 1..(Len(expiring_facilities) - 1) :
            expiring_facilities[k] < expiring_facilities[k + 1]
      /\ \A i \in 1..Len(facilities) :
            LET es == Entries(facilities[i]) IN
            IF i \in Range(expiring_facilities)
              THEN \E j \in 1..Len(es) : \E c \in cutoffs :
                      ExpiresBy(es[j].valid_until, c)
              ELSE \A j \in 1..Len(es) :
                      IsIsoDate(es[j].valid_until) =>
                        \E c \in cutoffs : ~ ExpiresBy(es[j].valid_until, c)

\* a facility record as the data model has it: a mapping whose accreditations,
\* if any, are a list of mappings
ProperRecord(f) ==
    /\ f.type = "dict"
    /\ f.accreditations.type \in {"list", "absent"}
    /\ \A j \in 1..Len(f.accreditations.items) : f.accreditations.items[j].type = "dict"

\* C1, for every list of facility records: the pass over such a list returns
FilterOfRecordsReturns ==
    (\A i \in 1..Len(facilities) : ProperRecord(facilities[i])) => pc # "raised"

\* C1: both of the above
FilterExactOnRecords == FilterSubsequenceExact /\ FilterOfRecordsReturns

\* C1 witness: three facilities under one cutoff, the first and the third kept,
\* the second (a valid date after the cutoff) left out
FilterKeepsFirstAndThird ==
    /\ FilterReturned
    /\ Len(facilities) = 3
    /\ expiring_facilities = <<1, 3>>
    /\ Cardinality(cutoffs) = 1
    /\ \E j \in 1..Len(Entries(facilities[2])) :
          IsIsoDate(Entries(facilities[2])[j].valid_until)

\* C6: parse_json_lines returns the values of the K structured lines of the body,
\* in line order, whatever malformed or blank lines stand between them; so does
\* the fetch that calls it
ParseYieldsStructuredLines ==
    /\ pc = "start" =>
          /\ parse_json_lines(body) = ValidRecords(lines)
          /\ Len(parse_json_lines(body))
               = Cardinality({k \in 1..Len(lines) : IsStructured(lines[k])})
    /\ (pc # "start" /\ fetch = "ok") => facilities = ValidRecords(lines)

\* C6 witness: a malformed line between two structured lines, two records parsed
ParseSkipsMalformedBetween ==
    /\ fetch = "ok"
    /\ Len(lines) = 3
    /\ IsStructured(lines[1])
    /\ IsMalformed(lines[2])
    /\ IsStructured(lines[3])
    /\ facilities = <<StructuredValue(lines[1]), StructuredValue(lines[3])>>

\* C7: a failed fetch is logged and leaves the empty list, the job goes on
\* through the filter and the write; a failed write is logged and the run ends
\* normally; no failure of the storage service leaves the job as an exception
StorageFailuresAbsorbed ==
    /\ FetchFailed =>
          /\ facilities = <<>>
          /\ exc = "none" /\ pc # "raised"
          /\ errlog = 1 + (IF WriteFailed THEN 1 ELSE 0)
          /\ pc # "done" => ENABLED JobStep
          /\ pc = "done" =>
                /\ passStart # NoDate
                /\ write # "pending"
                /\ write = "ok" => transformed = [written |-> TRUE, data |-> <<>>]
    /\ WriteFailed =>
          /\ pc = "done" /\ exc = "none"
          /\ errlog >= 1
          /\ transformed = NotWritten
    /\ pc = "raised" => fetch = "ok" /\ write = "pending"

\* C7 witness: the fetch and the write both failed and the job reached its end
BothStorageCallsFailed ==
    pc = "done" /\ fetch = "ClientError" /\ write = "Exception" /\ exc = "none"

\* C8 as claimed: every check of one filtering pass compares against the same
\* cutoff date
SingleCutoffPerPass == Cardinality(cutoffs) <= 1

\* C10 as claimed: no record of a fetched feed makes filter_expiring_facilities
\* raise
FilterAbsorbsRecordErrors == ~ (pc = "raised" /\ fetch = "ok")

-----------------------------------------------------------------------------
(* Claims about check_if_expiring *)

\* C2: check_if_expiring returns, never raises, and returns true exactly when
\* its argument is a valid ISO date on or before today + 6 months
CheckIffValidAndDue ==
    chk.phase \in {"returned", "raised"} =>
      /\ chk.phase = "returned" /\ chk.raised = "none"
      /\ chk.result <=> ExpiresBy(chk.arg, relativedelta_months(today, 6))
      /\ ~ IsIsoDate(chk.arg) => ~ chk.result

\* C2 witness: the boundary, a valid date equal to the cutoff, gives true
CheckTrueOnCutoffDay ==
    /\ chk.phase = "returned"
    /\ chk.result
    /\ IsIsoDate(chk.arg)
    /\ Ordinal(TextDate(chk.arg.chars)) = Ordinal(relativedelta_months(today, 6))

-----------------------------------------------------------------------------
(* Claims about the Aggregation-and-Archive job *)

CopiesBy(i) == {c \in copies : c.by = i}

Last(seq) == seq[Len(seq)]

Finished(i) == lpc[i] \in {"returned", "raised"}

\* what C3 says of the invocations whose query did not succeed, and of the
\* order of polling and copying
CopyOnlyAfterSucceeded ==
    \A i \in Invs :
      /\ (lpc[i] \in {"archive", "copy"} \/ CopiesBy(i) # {}) =>
            /\ state[i] = "SUCCEEDED"
            /\ observed[i] # <<>> /\ Last(observed[i]) = "SUCCEEDED"
      /\ (state[i] \in {"FAILED", "CANCELLED"} /\ lpc[i] # "decide") =>
            /\ lpc[i] = "raised"
            /\ error[i] = [kind |-> "RuntimeError", state |-> state[i]]
            /\ CopiesBy(i) = {}
            /\ result[i] = NoResult
      /\ lpc[i] = "returned" =>
            /\ state[i] = "SUCCEEDED"
            /\ result[i].statusCode = 200
            /\ result[i].result_path = S3Path(dest_key[i])
            /\ CopiesBy(i) = {[key |-> result[i].result_path.key, by |-> i,
                               source |-> qid[i]]}

\* C3 as claimed: the copy follows SUCCEEDED only, FAILED and CANCELLED end in
\* the error naming the state with no copy, and every invocation whose polling
\* returned SUCCEEDED archives and returns the success payload
SucceededAlwaysArchived ==
    /\ CopyOnlyAfterSucceeded
    /\ \A i \in Invs :
          (Finished(i) /\ state[i] = "SUCCEEDED") =>
            lpc[i] = "returned" /\ CopiesBy(i) # {}

\* C3 amended: as claimed, except that an invocation whose polling returned
\* SUCCEEDED returns the success payload only if the archive step itself is
\* not rejected; a rejected lookup or copy leaves the handler as that error,
\* with no payload and no copy
ArchiveAfterSucceededUnlessRejected ==
    /\ CopyOnlyAfterSucceeded
    /\ \A i \in Invs :
          (Finished(i) /\ state[i] = "SUCCEEDED") =>
            \/ lpc[i] = "returned" /\ CopiesBy(i) # {}
            \/ /\ lpc[i] = "raised"
               /\ error[i].kind = "ClientError"
               /\ CopiesBy(i) = {}
               /\ result[i] = NoResult

\* C3 witness: one invocation returned its payload after RUNNING, SUCCEEDED
\* while the other was refused with CANCELLED
OneArchivedOneCancelled ==
    \E i, j \in Invs :
      /\ lpc[i] = "returned" /\ observed[i] = <<"RUNNING", "SUCCEEDED">>
      /\ CopiesBy(i) # {}
      /\ lpc[j] = "raised" /\ state[j] = "CANCELLED"

\* C4: wait_for_query fetches no state after a terminal one: the terminal state
\* is the last of the k states fetched, it is the state returned, and k - 1
\* sleeps were made
PollStopsAtFirstTerminal ==
    \A i \in Invs :
      /\ \A k \in 1..(Len(observed[i]) - 1) : observed[i][k] \notin Terminal
      /\ (observed[i] # <<>> /\ Last(observed[i]) \in Terminal) =>
            /\ lpc[i] \notin {"poll", "sleep"}
            /\ state[i] = Last(observed[i])
            /\ naps[i] = Len(observed[i]) - 1
      /\ lpc[i] \in {"decide", "archive", "copy", "returned"} =>
            observed[i] # <<>> /\ Last(observed[i]) \in Terminal

\* C4 witness: RUNNING, RUNNING, SUCCEEDED: three fetches, SUCCEEDED returned
PollThreeFetches ==
    \E i \in Invs :
      /\ lpc[i] = "decide"
      /\ observed[i] = <<"RUNNING", "RUNNING", "SUCCEEDED">>
      /\ state[i] = "SUCCEEDED"
      /\ naps[i] = 2

AllRunning(seq) == \A k \in 1..Len(seq) : seq[k] = "RUNNING"

\* C5: TimeoutError is raised after max_tries fetches that all returned RUNNING,
\* never earlier and with no further fetch; it leaves lambda_handler with no copy
\* made; the error of a FAILED or CANCELLED query is another kind, RuntimeError
TimeoutAfterMaxTries ==
    \A i \in Invs :
      /\ Len(observed[i]) <= max_tries
      /\ error[i].kind = "TimeoutError" =>
            /\ lpc[i] = "raised"
            /\ Len(observed[i]) = max_tries /\ AllRunning(observed[i])
            /\ naps[i] = max_tries
            /\ CopiesBy(i) = {} /\ result[i] = NoResult /\ dest_key[i] = NoKey3
      /\ (Len(observed[i]) = max_tries /\ AllRunning(observed[i]) /\ lpc[i] # "sleep") =>
            lpc[i] = "raised" /\ error[i].kind = "TimeoutError"
      /\ error[i].kind = "RuntimeError" => state[i] \in {"FAILED", "CANCELLED"}
      /\ state[i] \in {"FAILED", "CANCELLED"} => error[i].kind # "TimeoutError"

\* C5 witness: an invocation ended in TimeoutError
TimedOut == \E i \in Invs : lpc[i] = "raised" /\ error[i].kind = "TimeoutError"

\* C9 as claimed: no two invocations copy to the same destination key
ArchiveKeysDistinct ==
    \A c1, c2 \in copies : c1.by # c2.by => c1.key # c2.key

=============================================================================
